---- MODULE Spec2Model ----
(***************************************************************************)
(* A model of panditas' transformation rules                               *)
(* (src/panditas/transformation_rules.py): the rules read a data frame     *)
(* from the data flow by name, transform it and save the result under the  *)
(* rule's own name.                                                        *)
(*                                                                         *)
(* A scalar is a record [t, n, s]: t is its Python type ("int", "float",   *)
(* "nan", "str", "bool", "none"), n its number and s its text.  A column   *)
(* is [dtype, vals]; a data frame is [present, columns, nrows, data].      *)
(***************************************************************************)
EXTENDS Integers, Sequences, FiniteSets, TLC

VARIABLES registry, rule, err, prev, pc

vars == <<registry, rule, err, prev, pc>>

(* ------------------------------------------------------------------ *)
(* Bounds of the model                                                  *)
(* ------------------------------------------------------------------ *)
MaxRows == 3
MaxOps == 2
MaxValues == 2
MaxRules == 2

(* ------------------------------------------------------------------ *)
(* Scalars                                                              *)
(* ------------------------------------------------------------------ *)
IntV(n) == [t |-> "int", n |-> n, s |-> ""]
FloatV(n) == [t |-> "float", n |-> n, s |-> ""]
StrV(s) == [t |-> "str", n |-> 0, s |-> s]
BoolV(b) == [t |-> "bool", n |-> IF b THEN 1 ELSE 0, s |-> ""]
NaN == [t |-> "nan", n |-> 0, s |-> ""]
None == [t |-> "none", n |-> 0, s |-> ""]

IsNum(v) == v.t \in {"int", "float", "bool"}

Range(f) == {f[i] : i \in DOMAIN f}

Min(a, b) == IF a < b THEN a ELSE b

DigitChars == <<"0", "1", "2", "3", "4", "5", "6", "7", "8", "9">>

RECURSIVE NatStr(_)
NatStr(n) == IF n < 10 THEN DigitChars[n + 1]
             ELSE NatStr(n \div 10) \o DigitChars[(n % 10) + 1]

IntStr(n) == IF n < 0 THEN "-" \o NatStr(0 - n) ELSE NatStr(n)

DigitVal(c) == CHOOSE d \in 0..9 : DigitChars[d + 1] = c

IsDigits(s) == Len(s) > 0 /\ \A i \in 1..Len(s) : \E d \in 0..9 : DigitChars[d + 1] = SubSeq(s, i, i)

RECURSIVE DigitsVal(_)
DigitsVal(s) == IF Len(s) = 0 THEN 0
                ELSE 10 * DigitsVal(SubSeq(s, 1, Len(s) - 1)) + DigitVal(SubSeq(s, Len(s), Len(s)))

(* int(s) of Python on the text s: an optional sign and digits. *)
IsIntText(s) == IF Len(s) > 1 /\ SubSeq(s, 1, 1) = "-" THEN IsDigits(SubSeq(s, 2, Len(s)))
                ELSE IsDigits(s)

IntOfText(s) == IF SubSeq(s, 1, 1) = "-" THEN 0 - DigitsVal(SubSeq(s, 2, Len(s)))
                ELSE DigitsVal(s)

(* str(v) of Python. *)
PyStr(v) == CASE v.t = "int" -> IntStr(v.n)
              [] v.t = "float" -> IntStr(v.n) \o ".0"
              [] v.t = "nan" -> "nan"
              [] v.t = "none" -> "None"
              [] v.t = "bool" -> (IF v.n = 1 THEN "True" ELSE "False")
              [] OTHER -> v.s

(* bool(v) of Python: zero, the empty text, False and None are false; a NaN is true. *)
Truthy(v) == CASE v.t \in {"int", "float", "bool"} -> v.n /= 0
               [] v.t = "str" -> v.s /= ""
               [] v.t = "none" -> FALSE
               [] OTHER -> TRUE

(* ------------------------------------------------------------------ *)
(* Columns and data frames                                              *)
(* ------------------------------------------------------------------ *)
AsFloat(v) == IF v.t \in {"int", "bool"} THEN FloatV(v.n) ELSE IF v.t = "none" THEN NaN ELSE v

InferDtype(vals) ==
    IF \A i \in DOMAIN vals : vals[i].t = "int" THEN "int64"
    ELSE IF \A i \in DOMAIN vals : vals[i].t \in {"int", "float", "nan"} THEN "float64"
    ELSE IF \A i \in DOMAIN vals : vals[i].t = "bool" THEN "bool"
    ELSE "object"

(* A pandas Series built from the values: numbers with a NaN among them become floats. *)
Series(vals) ==
    LET dt == InferDtype(vals)
    IN [dtype |-> dt,
        vals |-> IF dt = "float64" THEN [i \in DOMAIN vals |-> AsFloat(vals[i])] ELSE vals]

NoFrame == [present |-> FALSE, columns |-> <<>>, nrows |-> 0, data |-> <<>>]

HasColumn(df, c) == \E i \in DOMAIN df.columns : df.columns[i] = c

ColumnSet(df) == Range(df.columns)

(* df[c] = col *)
SetColumn(df, c, col) ==
    [df EXCEPT !.columns = IF HasColumn(df, c) THEN df.columns ELSE Append(df.columns, c),
               !.data = [k \in ColumnSet(df) \cup {c} |-> IF k = c THEN col ELSE df.data[k]]]

(* df[c] = scalar *)
Broadcast(df, v) == Series([i \in 1..df.nrows |-> v])

(* DataFrame(rows) with the given column names; a row is a tuple of scalars. *)
Frame(names, rows) ==
    [present |-> TRUE, columns |-> names, nrows |-> Len(rows),
     data |-> [k \in Range(names) |->
                 LET j == CHOOSE i \in DOMAIN names : names[i] = k
                 IN Series([r \in DOMAIN rows |-> rows[r][j]])]]

(* The rows of a frame picked by a sequence of row positions. *)
TakeRows(df, idx) ==
    [df EXCEPT !.nrows = Len(idx),
               !.data = [k \in ColumnSet(df) |->
                           [dtype |-> df.data[k].dtype,
                            vals |-> [i \in DOMAIN idx |-> df.data[k].vals[idx[i]]]]]]

RECURSIVE MaskedPositions(_, _)
MaskedPositions(mask, i) ==
    IF i > Len(mask) THEN <<>>
    ELSE (IF mask[i] THEN <<i>> ELSE <<>>) \o MaskedPositions(mask, i + 1)

(* df[mask] *)
SelectRows(df, mask) == TakeRows(df, MaskedPositions(mask, 1))

(* ------------------------------------------------------------------ *)
(* The data flow (models.DataFlow), which keeps the data frames by name  *)
(* ------------------------------------------------------------------ *)
DataSets == {"src", "out", "alt"}

get_output_df(reg, name) == reg[name]

save_output_df(reg, df, name) == [reg EXCEPT ![name] = df]

(* An exception: its Python class and the name it complains about. *)
Raise(type, arg) == [type |-> type, arg |-> arg]

NoError == Raise("none", "")

Failed(reg, e) == [err |-> e, registry |-> reg]

Saved(reg, df, name) == [err |-> NoError, registry |-> save_output_df(reg, df, name)]

Ok(df) == [err |-> NoError, df |-> df]

Fail(e, df) == [err |-> e, df |-> df]

(* ------------------------------------------------------------------ *)
(* CalculatedColumn                                                     *)
(* ------------------------------------------------------------------ *)
SUPPORTED_OPERATIONS == {"sum", "subtract", "multiply", "divide"}

(* pd.to_numeric(series): numbers stay, numeric text is parsed, other text is refused. *)
CanBeNumeric(col) ==
    col.dtype /= "object"
    \/ \A i \in DOMAIN col.vals : col.vals[i].t = "str" => IsIntText(col.vals[i].s)

ToNumeric(col) ==
    IF col.dtype /= "object" THEN col
    ELSE Series([i \in DOMAIN col.vals |->
                   LET v == col.vals[i]
                   IN IF v.t = "str" THEN IntV(IntOfText(v.s))
                      ELSE IF v.t = "none" THEN NaN ELSE v])

(* The test of line 113 is true of every dtype, so every column goes through to_numeric. *)
RECURSIVE check_column_arith(_, _)
check_column_arith(df, column_names) ==
    IF Len(column_names) = 0 THEN Ok(df)
    ELSE LET col == Head(column_names)
         IN IF ~HasColumn(df, col) THEN Fail(Raise("KeyError", col), df)
            ELSE IF ~CanBeNumeric(df.data[col]) THEN Fail(Raise("TypeError", col), df)
            ELSE check_column_arith(SetColumn(df, col, ToNumeric(df.data[col])),
                                    Tail(column_names))

(* Element-wise arithmetic of two numeric scalars; a NaN on either side gives NaN. *)
Arith(op, u, v) ==
    IF u.t = "nan" \/ v.t = "nan" THEN NaN
    ELSE LET n == CASE op = "sum" -> u.n + v.n
                    [] op = "subtract" -> u.n - v.n
                    [] OTHER -> u.n * v.n
         IN IF u.t = "float" \/ v.t = "float" THEN FloatV(n) ELSE IntV(n)

ColumnArith(op, c1, c2) ==
    LET f == c1.dtype = "float64" \/ c2.dtype = "float64"
    IN [dtype |-> IF f THEN "float64" ELSE "int64",
        vals |-> [i \in DOMAIN c1.vals |->
                    LET w == Arith(op, c1.vals[i], c2.vals[i])
                    IN IF f THEN AsFloat(w) ELSE IntV(w.n)]]

BinaryColumns(op, r, df, column) ==
    LET chk == check_column_arith(df, <<r.base_column, column>>)
    IN IF chk.err /= NoError THEN chk
       ELSE Ok(SetColumn(chk.df, r.base_column,
                         ColumnArith(op, chk.df.data[r.base_column], chk.df.data[column])))

sum_columns(r, df, column_added) == BinaryColumns("sum", r, df, column_added)

subtract_columns(r, df, column_subtracted) == BinaryColumns("subtract", r, df, column_subtracted)

multiply_columns(r, df, column_multiplied) == BinaryColumns("multiply", r, df, column_multiplied)

(* Series.cumsum(skipna): a NaN stays a NaN where it stands; with skipna the running sum *)
(* goes on past it, without skipna every later position is NaN too.                      *)
RECURSIVE CumSumVals(_, _, _, _, _)
CumSumVals(vals, skipna, i, acc, dead) ==
    IF i > Len(vals) THEN <<>>
    ELSE LET v == vals[i]
         IN IF v.t = "nan" THEN <<NaN>> \o CumSumVals(vals, skipna, i + 1, acc, dead \/ ~skipna)
            ELSE IF dead THEN <<NaN>> \o CumSumVals(vals, skipna, i + 1, acc, dead)
            ELSE <<[v EXCEPT !.n = acc + v.n]>> \o CumSumVals(vals, skipna, i + 1, acc + v.n, dead)

(* C13's mutant: a cumsum that takes skipna as off, so a NaN reaches every later row. *)
CumSumNoSkip(col, skipna) == [dtype |-> col.dtype, vals |-> CumSumVals(col.vals, FALSE, 1, 0, FALSE)]

CumSum(col, skipna) == [dtype |-> col.dtype, vals |-> CumSumVals(col.vals, skipna, 1, 0, FALSE)]

cumsum_column(r, df, cumsum_col) ==
    LET chk == check_column_arith(df, <<r.base_column>>)
    IN IF chk.err /= NoError THEN chk
       ELSE IF r.axis /= 0 THEN Fail(Raise("ValueError", "axis"), chk.df)
       ELSE Ok(SetColumn(chk.df, IF cumsum_col /= "" THEN cumsum_col ELSE r.base_column,
                         CumSum(chk.df.data[r.base_column], r.skipna)))

(* Series.mod(m) of a numeric column: the remainder of every number, a NaN stays a NaN. *)
Mod(col, m) ==
    [dtype |-> col.dtype,
     vals |-> [i \in DOMAIN col.vals |->
                 LET v == col.vals[i]
                 IN IF v.t = "nan" THEN NaN ELSE [v EXCEPT !.n = v.n % m]]]

(* A method of the class that the operations dict of run does not list. *)
mod_column(r, df, mod_col) ==
    LET chk == check_column_arith(df, <<r.base_column>>)
    IN IF chk.err /= NoError THEN chk
       ELSE Ok(SetColumn(chk.df, IF mod_col /= "" THEN mod_col ELSE r.base_column,
                         Mod(chk.df.data[r.base_column], r.mod)))

(* The operations dict of run. *)
operations == {"sum", "subtract", "multiply", "cumsum"}

Operation(r, operation, df, column) ==
    CASE operation = "sum" -> sum_columns(r, df, column)
      [] operation = "subtract" -> subtract_columns(r, df, column)
      [] operation = "multiply" -> multiply_columns(r, df, column)
      [] OTHER -> cumsum_column(r, df, column)

(* C2's mutant: every step works on the frame as read, the last step's result is kept. *)
RECURSIVE ApplyExpressionOnSnapshot(_, _, _, _)
ApplyExpressionOnSnapshot(r, df, expression, i) ==
    IF i > Len(expression) THEN Ok(df)
    ELSE LET operation == expression[i][1]
             column == expression[i][2]
         IN IF operation \notin operations THEN Fail(Raise("KeyError", operation), df)
            ELSE LET res == Operation(r, operation, df, column)
                 IN IF res.err /= NoError \/ i = Len(expression) THEN res
                    ELSE ApplyExpressionOnSnapshot(r, df, expression, i + 1)

(* for operation, column in self.expression: df = operations[operation](df, column) *)
RECURSIVE ApplyExpression(_, _, _, _)
ApplyExpression(r, df, expression, i) ==
    IF i > Len(expression) THEN Ok(df)
    ELSE LET operation == expression[i][1]
             column == expression[i][2]
         IN IF operation \notin operations THEN Fail(Raise("KeyError", operation), df)
            ELSE LET res == Operation(r, operation, df, column)
                 IN IF res.err /= NoError THEN res
                    ELSE ApplyExpression(r, res.df, expression, i + 1)

_validate_expression(r) == Len(r.expression) > 0

CalculatedColumn_run(reg, r) ==
    LET df0 == get_output_df(reg, r.input)
        df == IF HasColumn(df0, r.base_column) THEN df0
              ELSE SetColumn(df0, r.base_column, Broadcast(df0, NaN))
        res == ApplyExpression(r, df, r.expression, 1)
    IN IF ~df0.present THEN Failed(reg, Raise("UnknownDataset", r.input))
       ELSE IF res.err /= NoError THEN Failed(reg, res.err)
       ELSE Saved(reg, res.df, r.name)

(* ------------------------------------------------------------------ *)
(* Text and comparisons of Python                                       *)
(* ------------------------------------------------------------------ *)
(* sub in s *)
Contains(s, sub) == \E i \in 1..(Len(s) - Len(sub) + 1) : SubSeq(s, i, i + Len(sub) - 1) = sub

StartsWith(s, sub) == Len(sub) <= Len(s) /\ SubSeq(s, 1, Len(sub)) = sub

EndsWith(s, sub) == Len(sub) <= Len(s) /\ SubSeq(s, Len(s) - Len(sub) + 1, Len(s)) = sub

CharOrder == "0123456789_abcdefghijklmnopqrstuvwxyz"

Ord(c) == CHOOSE i \in 1..Len(CharOrder) : SubSeq(CharOrder, i, i) = c

RECURSIVE TextLess(_, _)
TextLess(s, u) ==
    IF Len(u) = 0 THEN FALSE
    ELSE IF Len(s) = 0 THEN TRUE
    ELSE LET a == Ord(SubSeq(s, 1, 1))
             b == Ord(SubSeq(u, 1, 1))
         IN IF a /= b THEN a < b
            ELSE TextLess(SubSeq(s, 2, Len(s)), SubSeq(u, 2, Len(u)))

(* Can Python order the two scalars?  A number and a text cannot be ordered. *)
Orderable(u, v) == (u.t = "str") = (v.t = "str")

(* u op v on two scalars, element of an element-wise comparison.  A NaN equals *)
(* nothing and is ordered with nothing; a number never equals a text.           *)
Compare(op, u, v) ==
    LET known == u.t \notin {"nan", "none"} /\ v.t \notin {"nan", "none"}
        text == u.t = "str" /\ v.t = "str"
        same == known /\ Orderable(u, v) /\ (IF text THEN u.s = v.s ELSE u.n = v.n)
        less == known /\ Orderable(u, v) /\ (IF text THEN TextLess(u.s, v.s) ELSE u.n < v.n)
    IN CASE op = "==" -> same
         [] op = "!=" -> ~same
         [] op = "<" -> less
         [] op = "<=" -> less \/ same
         [] op = ">" -> known /\ Orderable(u, v) /\ ~less /\ ~same
         [] OTHER -> known /\ Orderable(u, v) /\ ~less

(* ------------------------------------------------------------------ *)
(* ConditionalFill                                                      *)
(* ------------------------------------------------------------------ *)
CHECK_CONDITIONS == {"==", "!=", ">", ">=", "<", "=<contains", "does not contain",
                     "starts with", "does not start with", "ends with"}

(* The text of one comparison value, as the compiled expression holds it: a column   *)
(* of the frame, or a literal.                                                       *)
ColumnOperand(name) == [column |-> TRUE, name |-> name, literal |-> None]

LiteralOperand(v) == [column |-> FALSE, name |-> "", literal |-> v]

NamesColumn(df, value) == value.t = "str" /\ HasColumn(df, value.s)

(* int(value) and float(value) of lines 356-359: the text of a column operand or a    *)
(* text that is no number is refused.                                                 *)
CoercionFails(df, column, value) ==
    /\ df.data[column].dtype \in {"int64", "float64"}
    /\ value.t = "str"
    /\ (NamesColumn(df, value) \/ ~IsIntText(value.s))

Coerce(df, column, value) ==
    LET dt == df.data[column].dtype
    IN IF NamesColumn(df, value) THEN ColumnOperand(value.s)
       ELSE IF dt = "int64" /\ value.t = "str" THEN LiteralOperand(IntV(IntOfText(value.s)))
       ELSE IF dt = "float64" /\ value.t = "str" THEN LiteralOperand(FloatV(IntOfText(value.s)))
       ELSE IF dt = "float64" /\ value.t = "int" THEN LiteralOperand(FloatV(value.n))
       ELSE LiteralOperand(value)

(* C1's mutant: the elementary predicates are always joined with | . *)
JoinerAlwaysOr(action) == "|"

(* " & " for an action with "!" or "not" in it, " | " otherwise. *)
Joiner(action) == IF Contains(action, "!") \/ Contains(action, "not") THEN "&" ELSE "|"

(* The compiled expression: the elementary predicates, each in its own parentheses, *)
(* and the operator they are joined with.                                            *)
Expression(terms, joiner) == [terms |-> terms, joiner |-> joiner]

Term(style, negation, column, action, operand) ==
    [style |-> style, negation |-> negation, column |-> column, action |-> action,
     operand |-> operand]

_build_operator_expression(values, action, column, df) ==
    IF \E k \in DOMAIN values : CoercionFails(df, column, values[k])
    THEN [err |-> Raise("ValueError", column), expression |-> Expression(<<>>, "")]
    ELSE [err |-> NoError,
          expression |-> Expression([k \in DOMAIN values |->
                                        Term("operator", FALSE, column, action,
                                             Coerce(df, column, values[k]))],
                                    Joiner(action))]

string_methods == [k \in {"contains", "not contains", "startswith", "not startswith",
                          "endswith", "not endswith"} |->
                      IF Contains(k, "contains") THEN "contains"
                      ELSE IF Contains(k, "startswith") THEN "startswith" ELSE "endswith"]

_build_string_expression(values, action, column) ==
    [err |-> NoError,
     expression |-> Expression([k \in DOMAIN values |->
                                   Term("method", Contains(action, "not"), column,
                                        string_methods[action], LiteralOperand(values[k]))],
                               Joiner(action))]

(* The message of the last branch adds a list and a dict, which Python refuses. *)
_build_pandas_expression(column, action, values, df) ==
    IF action \in {"==", "!="} THEN _build_operator_expression(values, action, column, df)
    ELSE IF action \in DOMAIN string_methods THEN _build_string_expression(values, action, column)
    ELSE [err |-> Raise("TypeError", action), expression |-> Expression(<<>>, "")]

(* eval of the compiled expression: what stops it, and the mask it gives. *)
EvalError(df, expression) ==
    IF Len(expression.terms) = 0 THEN Raise("SyntaxError", "")
    ELSE IF \E k \in DOMAIN expression.terms :
               expression.terms[k].style = "method"
               /\ df.data[expression.terms[k].column].dtype /= "object"
         THEN Raise("AttributeError", "str")
    ELSE IF \E k \in DOMAIN expression.terms :
               expression.terms[k].style = "method"
               /\ expression.terms[k].operand.literal.t /= "str"
         THEN Raise("TypeError", "pattern")
    ELSE NoError

EvalTerm(df, term, i) ==
    LET cell == df.data[term.column].vals[i]
        other == IF term.operand.column THEN df.data[term.operand.name].vals[i]
                 ELSE term.operand.literal
    IN IF term.style = "operator" THEN Compare(term.action, cell, other)
       ELSE LET hit == CASE term.action = "contains" -> Contains(cell.s, other.s)
                         [] term.action = "startswith" -> StartsWith(cell.s, other.s)
                         [] OTHER -> EndsWith(cell.s, other.s)
            IN IF term.negation THEN ~hit ELSE hit

Eval(df, expression) ==
    [i \in 1..df.nrows |->
        IF expression.joiner = "&"
        THEN \A k \in DOMAIN expression.terms : EvalTerm(df, expression.terms[k], i)
        ELSE \E k \in DOMAIN expression.terms : EvalTerm(df, expression.terms[k], i)]

(* np.where(mask, fill_value, column): a text among numbers turns all of them to text. *)
np_where(mask, fill_value, col) ==
    LET text == fill_value.t = "str" /\ col.dtype /= "object"
    IN Series([i \in DOMAIN col.vals |->
                 IF mask[i] THEN fill_value
                 ELSE IF text THEN StrV(PyStr(col.vals[i])) ELSE col.vals[i]])

ConditionalFill_run(reg, r) ==
    LET df == get_output_df(reg, r.input)
        built == _build_pandas_expression(r.where_column, r.where_condition,
                                          r.where_condition_values, df)
        stop == EvalError(df, built.expression)
    IN IF ~df.present THEN Failed(reg, Raise("UnknownDataset", r.input))
       ELSE IF ~HasColumn(df, r.where_column) THEN Failed(reg, Raise("Exception", r.where_column))
       ELSE IF built.err /= NoError THEN Failed(reg, built.err)
       ELSE IF stop /= NoError THEN Failed(reg, stop)
       ELSE IF ~HasColumn(df, r.fill_column) THEN Failed(reg, Raise("KeyError", r.fill_column))
       ELSE Saved(reg, SetColumn(df, r.fill_column,
                                 np_where(Eval(df, built.expression), r.fill_value,
                                          df.data[r.fill_column])),
                  r.name)

(* ------------------------------------------------------------------ *)
(* ConstantColumn                                                       *)
(* ------------------------------------------------------------------ *)
(* C4's mutant: the frame that was read is changed where it is kept, under the input's *)
(* name, as well as saved under the rule's name.                                       *)
ConstantColumn_run_in_place(reg, r) ==
    LET df == get_output_df(reg, r.input)
        out == SetColumn(df, r.column_name, Broadcast(df, r.column_value))
    IN IF ~df.present THEN Failed(reg, Raise("UnknownDataset", r.input))
       ELSE Saved(save_output_df(reg, out, r.input), out, r.name)

ConstantColumn_run(reg, r) ==
    LET df == get_output_df(reg, r.input)
    IN IF ~df.present THEN Failed(reg, Raise("UnknownDataset", r.input))
       ELSE Saved(reg, SetColumn(df, r.column_name, Broadcast(df, r.column_value)), r.name)

(* ------------------------------------------------------------------ *)
(* FilterBy                                                             *)
(* ------------------------------------------------------------------ *)
(* zip(filter_conditions, condition_values): the pairs up to the shorter list's end. *)
Zip(xs, ys) == [i \in 1..Min(Len(xs), Len(ys)) |-> <<xs[i], ys[i]>>]

(* _validate_inputs asserts non-empty tuples, which are always true, and run never  *)
(* calls it: every configuration passes.                                             *)
_validate_inputs(r) == TRUE

QueryConditions == {"==", "!=", ">", ">=", "<", "=<"}

(* The value as df.query reads its text: digits are a number, a name is a column of *)
(* the frame or is not defined.                                                       *)
QueryOperand(df, value) ==
    IF value.t = "str" /\ IsIntText(value.s) THEN LiteralOperand(IntV(IntOfText(value.s)))
    ELSE IF value.t = "str" THEN ColumnOperand(value.s)
    ELSE LiteralOperand(value)

QueryCell(df, operand, i) ==
    IF operand.column THEN df.data[operand.name].vals[i] ELSE operand.literal

(* df.query('{column} {condition} {value}') *)
query(df, column, condition, value) ==
    LET operand == QueryOperand(df, value)
        ordered == condition \in {">", ">=", "<"}
    IN IF condition = "=<" THEN Fail(Raise("SyntaxError", condition), df)
       ELSE IF ~HasColumn(df, column) THEN Fail(Raise("UndefinedVariableError", column), df)
       ELSE IF operand.column /\ ~HasColumn(df, operand.name)
            THEN Fail(Raise("UndefinedVariableError", operand.name), df)
       ELSE IF ordered /\ \E i \in 1..df.nrows :
                              ~Orderable(df.data[column].vals[i], QueryCell(df, operand, i))
            THEN Fail(Raise("TypeError", column), df)
       ELSE Ok(SelectRows(df, [i \in 1..df.nrows |->
                                  Compare(condition, df.data[column].vals[i],
                                          QueryCell(df, operand, i))]))

(* One (condition, value) pair of the loop of run.  A Series has no contains,       *)
(* startswith or endswith; a condition of no branch leaves the frame as it is.       *)
FilterStep(r, df, condition, value) ==
    IF condition \in QueryConditions THEN query(df, r.column_name, condition, value)
    ELSE IF condition \in {"contains", "starts with", "ends with", "does not contain",
                           "does not start with"}
         THEN (IF ~HasColumn(df, r.column_name) THEN Fail(Raise("KeyError", r.column_name), df)
               ELSE Fail(Raise("AttributeError", condition), df))
    ELSE Ok(df)

RECURSIVE FilterLoop(_, _, _, _)
FilterLoop(r, df, pairs, i) ==
    IF i > Len(pairs) THEN Ok(df)
    ELSE LET res == FilterStep(r, df, pairs[i][1], pairs[i][2])
         IN IF res.err /= NoError THEN res ELSE FilterLoop(r, res.df, pairs, i + 1)

FilterBy_run(reg, r) ==
    LET df == get_output_df(reg, r.input)
        res == FilterLoop(r, df, Zip(r.filter_conditions, r.condition_values), 1)
    IN IF ~df.present THEN Failed(reg, Raise("UnknownDataset", r.input))
       ELSE IF res.err /= NoError THEN Failed(reg, res.err)
       ELSE Saved(reg, res.df, r.name)

(* ------------------------------------------------------------------ *)
(* PivotTable                                                           *)
(* ------------------------------------------------------------------ *)
GROUP_FUNCTIONS == {"alpha max", "alpha min", "concatenate", "count", "first", "first filled",
                    "last", "max", "min", "sum", "unique"}

IsNull(v) == v.t \in {"nan", "none"}

RECURSIVE WalkOrders(_)
WalkOrders(S) ==
    IF S = {} THEN {<<>>}
    ELSE UNION {{<<x>> \o p : p \in WalkOrders(S \ {x})} : x \in S}

RECURSIVE JoinInOrder(_, _, _)
JoinInOrder(tokens, order, i) ==
    IF i > Len(order) THEN ""
    ELSE LET rest == JoinInOrder(tokens, order, i + 1)
         IN IF order[i] \notin tokens THEN rest
            ELSE IF rest = "" /\ \A j \in (i + 1)..Len(order) : order[j] \notin tokens
                 THEN order[i]
            ELSE order[i] \o ", " \o rest

(* set(str(v) for v in x if v) *)
UniqueTokens(vals) == {PyStr(vals[i]) : i \in {j \in DOMAIN vals : Truthy(vals[j])}}

(* lambda x: ", ".join(set(str(v) for v in x if v)); a set is walked in an order of *)
(* its own, here the order the tokens have in `order`.                              *)
unique(vals, order) == StrV(JoinInOrder(UniqueTokens(vals), order, 1))

NotNull(vals) == SelectSeq(vals, LAMBDA v : ~IsNull(v))

RECURSIVE Fold(_, _, _)
Fold(op, vals, i) ==
    IF i = Len(vals) THEN vals[i]
    ELSE LET u == vals[i]
             w == Fold(op, vals, i + 1)
         IN CASE op = "sum" -> (IF u.t = "str" THEN StrV(u.s \o w.s)
                                ELSE [u EXCEPT !.n = u.n + w.n])
              [] op = "max" -> (IF Compare("<", u, w) THEN w ELSE u)
              [] OTHER -> (IF Compare("<", w, u) THEN w ELSE u)

(* The aggregations pandas knows by name, on the values of one group. *)
PandasAggregations == {"sum", "count", "first", "last", "max", "min"}

Aggregate(function, col, vals, order) ==
    LET known == NotNull(vals)
    IN CASE function = "unique" -> unique(vals, order)
         [] function = "count" -> IntV(Len(known))
         [] function = "sum" /\ Len(known) = 0 ->
                (IF col.dtype = "object" THEN IntV(0) ELSE [Head(vals) EXCEPT !.t = "float"])
         [] Len(known) = 0 -> NaN
         [] function = "first" -> Head(known)
         [] function = "last" -> known[Len(known)]
         [] OTHER -> Fold(function, known, 1)

RECURSIVE FirstMissing(_, _)
FirstMissing(df, names) ==
    IF Len(names) = 0 THEN ""
    ELSE IF ~HasColumn(df, Head(names)) THEN Head(names)
    ELSE FirstMissing(df, Tail(names))

(* C9's mutant: a value column with no aggregator of its own gets a default one. *)
group_function_or_default(r, key) ==
    IF key > Len(r.group_functions) THEN "first" ELSE r.group_functions[key]

(* self.group_functions[key]; "" stands for the IndexError of a list that is too short. *)
group_function(r, key) ==
    IF key > Len(r.group_functions) THEN "" ELSE r.group_functions[key]

(* pivot_functions: the function of a value column is the one of its last position. *)
pivot_functions(r) ==
    [c \in Range(r.group_values) |->
        LET key == CHOOSE k \in DOMAIN r.group_values :
                       /\ r.group_values[k] = c
                       /\ \A j \in DOMAIN r.group_values : r.group_values[j] = c => j <= k
        IN group_function(r, key)]

KeyOf(df, group_columns, i) == [j \in DOMAIN group_columns |-> df.data[group_columns[j]].vals[i]]

RECURSIVE KeyLess(_, _, _)
KeyLess(a, b, j) ==
    IF j > Len(a) THEN FALSE
    ELSE IF Compare("<", a[j], b[j]) THEN TRUE
    ELSE IF Compare("<", b[j], a[j]) THEN FALSE
    ELSE KeyLess(a, b, j + 1)

RECURSIVE SortedKeys(_)
SortedKeys(keys) ==
    IF keys = {} THEN <<>>
    ELSE LET m == CHOOSE a \in keys : \A b \in keys : ~KeyLess(b, a, 1)
         IN <<m>> \o SortedKeys(keys \ {m})

RECURSIVE SortedNames(_)
SortedNames(names) ==
    IF names = {} THEN <<>>
    ELSE LET m == CHOOSE a \in names : \A b \in names : ~TextLess(b, a)
         IN <<m>> \o SortedNames(names \ {m})

(* df.pivot_table(index, values, aggfunc).reset_index(): the rows of a null key are  *)
(* left out, the groups come in the order of their keys, a group whose results are    *)
(* all null is dropped, the value columns come in the order of their names.           *)
pivot_table(df, index, values, aggfunc, order) ==
    LET rows == {i \in 1..df.nrows : \A j \in DOMAIN index : ~IsNull(KeyOf(df, index, i)[j])}
        keys == SortedKeys({KeyOf(df, index, i) : i \in rows})
        group(k) == SelectSeq([i \in 1..df.nrows |-> i],
                              LAMBDA i : i \in rows /\ KeyOf(df, index, i) = keys[k])
        result(k, c) == Aggregate(aggfunc[c], df.data[c],
                                  [n \in DOMAIN group(k) |-> df.data[c].vals[group(k)[n]]],
                                  order)
        kept == SelectSeq([k \in DOMAIN keys |-> k],
                          LAMBDA k : \E c \in Range(values) : ~IsNull(result(k, c)))
    IN [present |-> TRUE,
        columns |-> index \o SortedNames(Range(values)),
        nrows |-> Len(kept),
        data |-> [c \in Range(index) \cup Range(values) |->
                    IF c \in Range(values)
                    THEN Series([n \in DOMAIN kept |-> result(kept[n], c)])
                    ELSE LET j == CHOOSE i \in DOMAIN index : index[i] = c
                         IN Series([n \in DOMAIN kept |-> keys[kept[n]][j]])]]

PivotTable_run(reg, r, order) ==
    LET df == get_output_df(reg, r.input)
        requested_columns == r.group_columns \o r.group_values
        missing == FirstMissing(df, requested_columns)
        functions == pivot_functions(r)
    IN IF ~df.present THEN Failed(reg, Raise("UnknownDataset", r.input))
       ELSE IF missing /= "" THEN Failed(reg, Raise("Exception", missing))
       ELSE IF \E k \in DOMAIN r.group_values : group_function(r, k) = ""
            THEN Failed(reg, Raise("IndexError", "group_functions"))
       ELSE IF \E c \in DOMAIN functions : functions[c] \notin PandasAggregations \cup {"unique"}
            THEN Failed(reg, Raise("AttributeError",
                                   functions[CHOOSE c \in DOMAIN functions :
                                       functions[c] \notin PandasAggregations \cup {"unique"}]))
       ELSE IF \E c \in DOMAIN functions :
                   functions[c] \in {"sum", "max", "min"} /\ df.data[c].dtype = "object"
                   /\ \E i \in 1..df.nrows : df.data[c].vals[i].t /= "str"
            THEN Failed(reg, Raise("TypeError", "aggregation"))
       ELSE Saved(reg, pivot_table(df, r.group_columns, r.group_values, functions, order),
                  r.name)

(* The orders in which the tokens of the run's unique columns can be walked. *)
TokenOrders(reg, r) ==
    LET df == get_output_df(reg, r.input)
        cols == {c \in Range(r.group_values) :
                    /\ df.present /\ HasColumn(df, c)
                    /\ \E k \in DOMAIN r.group_values :
                           r.group_values[k] = c /\ group_function(r, k) = "unique"}
    IN WalkOrders(UNION {UniqueTokens(df.data[c].vals) : c \in cols})

(* ------------------------------------------------------------------ *)
(* Inputs of the model                                                  *)
(* ------------------------------------------------------------------ *)
SeqsUpTo(S, n) == UNION {[1..k -> S] : k \in 0..n}

RECURSIVE Ascending(_)
Ascending(S) ==
    IF S = {} THEN <<>>
    ELSE LET m == CHOOSE x \in S : \A y \in S : x <= y
         IN <<m>> \o Ascending(S \ {m})

(* The frames made of at most MaxRows rows of a pool, in the pool's order. *)
FramesOf(names, pool) ==
    {Frame(names, [i \in 1..Cardinality(S) |-> pool[Ascending(S)[i]]]) :
        S \in {T \in SUBSET DOMAIN pool : Cardinality(T) \in 1..MaxRows}}

CalcColumns == <<"a", "x", "y", "s">>

CalcPool == << <<IntV(2), IntV(1), IntV(10), StrV("3")>>,
               <<IntV(3), IntV(2), NaN, StrV("5")>>,
               <<IntV(4), IntV(1), IntV(10), StrV("4")>>,
               <<IntV(6), IntV(1), IntV(10), StrV("q")>> >>

CalcFrames == FramesOf(CalcColumns, CalcPool)

CalcSteps == {<<"sum", "x">>, <<"subtract", "x">>, <<"multiply", "y">>, <<"multiply", "a">>,
              <<"sum", "s">>, <<"sum", "zz">>, <<"cumsum", "">>, <<"cumsum", "c">>,
              <<"divide", "x">>, <<"mod", "">>, <<"mod", "m">>, <<"power", "x">>}

CalcRules == [kind : {"CalculatedColumn"}, input : {"src"}, name : {"out"},
              base_column : {"a", "y", "n"}, expression : SeqsUpTo(CalcSteps, MaxOps),
              axis : {0}, skipna : BOOLEAN, mod : {3}]

FillColumns == <<"k", "f", "t", "u", "v">>

FillPool == << <<IntV(1), FloatV(1), StrV("ab"), StrV("ab"), IntV(0)>>,
               <<IntV(2), NaN, StrV("b"), StrV("a"), IntV(0)>>,
               <<IntV(3), FloatV(2), StrV("ba"), StrV("ba"), IntV(5)>>,
               <<IntV(1), FloatV(2), StrV("a"), StrV("b"), IntV(0)>> >>

FillFrames == FramesOf(FillColumns, FillPool)

FillConditions == {"==", "!=", "contains", "not contains", "startswith", "not endswith",
                   ">", "<=", "~="}

FillValues == {IntV(1), IntV(2), StrV("a"), StrV("b"), StrV("u"), StrV("v")}

FillRules == [kind : {"ConditionalFill"}, input : {"src"}, name : {"out"},
              fill_column : {"v", "zz"}, fill_value : {IntV(9)},
              where_column : {"k", "f", "t", "zz"}, where_condition : FillConditions,
              where_condition_values : SeqsUpTo(FillValues, MaxValues)]

FilterColumns == <<"k", "f", "m", "t">>

FilterPool == << <<IntV(1), FloatV(1), IntV(2), StrV("a")>>,
                 <<IntV(2), NaN, IntV(2), StrV("b")>>,
                 <<IntV(3), FloatV(2), IntV(1), StrV("a")>>,
                 <<IntV(2), FloatV(3), IntV(3), StrV("c")>> >>

FilterFrames == FramesOf(FilterColumns, FilterPool)

FilterConditions == {"==", "!=", ">", ">=", "<", "<=", "=<", "contains", "~="}

FilterValues == {IntV(2), StrV("1"), StrV("m"), StrV("q")}

FilterRules == [kind : {"FilterBy"}, input : {"src"}, name : {"out"},
                column_name : {"k", "f", "t", "zz"},
                filter_conditions : SeqsUpTo(FilterConditions, MaxValues),
                condition_values : SeqsUpTo(FilterValues, MaxValues)]

PivotColumns == <<"g", "h", "v", "f", "w">>

PivotPool == << <<IntV(2), IntV(1), IntV(0), NaN, StrV("a")>>,
                <<IntV(1), IntV(1), IntV(1), FloatV(1), StrV("")>>,
                <<IntV(2), IntV(2), IntV(1), NaN, StrV("a")>>,
                <<IntV(1), IntV(1), IntV(0), FloatV(2), StrV("b")>> >>

PivotFrames == FramesOf(PivotColumns, PivotPool)

PivotFunctions == {"sum", "count", "first", "unique", "alpha max"}

PivotRules == [kind : {"PivotTable"}, input : {"src"}, name : {"out"},
               group_columns : {<<"g">>, <<"g", "h">>, <<"zz">>},
               group_values : {<<"v">>, <<"f">>, <<"w">>, <<"v", "w">>, <<"f", "v">>, <<"zz">>},
               group_functions : SeqsUpTo(PivotFunctions, MaxValues),
               preserve_order : BOOLEAN]

(* The pipelines of several rules: every rule reads "src" or "out" and saves under any name. *)
PipeFrames == FramesOf(<<"a", "x", "g">>, << <<IntV(2), IntV(1), IntV(2)>>,
                                            <<IntV(4), IntV(1), IntV(1)>> >>)

Placed(rules) == {[input |-> i, name |-> n, config |-> c] :
                     i \in {"src", "out"}, n \in DataSets, c \in rules}

PipeConstantColumns ==
    {[kind |-> "ConstantColumn", input |-> p.input, name |-> p.name,
      column_name |-> p.config, column_value |-> IntV(7)] : p \in Placed({"c"})}

PipeCalculatedColumns ==
    {[kind |-> "CalculatedColumn", input |-> p.input, name |-> p.name, base_column |-> "a",
      expression |-> p.config, axis |-> 0, skipna |-> TRUE, mod |-> 3] :
        p \in Placed({<< <<"sum", "x">> >>, << <<"sum", "x">>, <<"sum", "zz">> >>})}

PipeConditionalFills ==
    {[kind |-> "ConditionalFill", input |-> p.input, name |-> p.name, fill_column |-> "x",
      fill_value |-> IntV(9), where_column |-> p.config, where_condition |-> "==",
      where_condition_values |-> <<IntV(2)>>] : p \in Placed({"a", "zz"})}

PipeFilterBys ==
    {[kind |-> "FilterBy", input |-> p.input, name |-> p.name, column_name |-> p.config,
      filter_conditions |-> <<"<=">>, condition_values |-> <<IntV(2)>>] :
        p \in Placed({"a", "zz"})}

PipePivotTables ==
    {[kind |-> "PivotTable", input |-> p.input, name |-> p.name, group_columns |-> <<p.config>>,
      group_values |-> <<"x">>, group_functions |-> <<"sum">>, preserve_order |-> TRUE] :
        p \in Placed({"g", "zz"})}

NoRule == [kind |-> "none"]

InitWith(frames) ==
    /\ \E df \in frames : registry = [d \in DataSets |-> IF d = "src" THEN df ELSE NoFrame]
    /\ rule = NoRule
    /\ err = NoError
    /\ prev = registry
    /\ pc = 0

(* One rule of the pipeline runs to its end: what it saved, how it ended. *)
Step(r, res) ==
    /\ registry' = res.registry
    /\ err' = res.err
    /\ rule' = r
    /\ prev' = registry
    /\ pc' = pc + 1

RunCalculatedColumn(rules, length) ==
    /\ pc < length
    /\ \E r \in rules : Step(r, CalculatedColumn_run(registry, r))

(* A pipeline of one CalculatedColumn rule. *)
InitCalc == InitWith(CalcFrames)

NextCalc == RunCalculatedColumn(CalcRules, 1)

SpecCalc == InitCalc /\ [][NextCalc]_vars

RunConditionalFill(rules, length) ==
    /\ pc < length
    /\ \E r \in rules : Step(r, ConditionalFill_run(registry, r))

(* A pipeline of one ConditionalFill rule. *)
InitFill == InitWith(FillFrames)

NextFill == RunConditionalFill(FillRules, 1)

SpecFill == InitFill /\ [][NextFill]_vars

RunFilterBy(rules, length) ==
    /\ pc < length
    /\ \E r \in rules : Step(r, FilterBy_run(registry, r))

(* A pipeline of one FilterBy rule. *)
InitFilter == InitWith(FilterFrames)

NextFilter == RunFilterBy(FilterRules, 1)

SpecFilter == InitFilter /\ [][NextFilter]_vars

RunPivotTable(rules, length) ==
    /\ pc < length
    /\ \E r \in rules : \E order \in TokenOrders(registry, r) :
           Step(r, PivotTable_run(registry, r, order))

(* A pipeline of one PivotTable rule. *)
InitPivot == InitWith(PivotFrames)

NextPivot == RunPivotTable(PivotRules, 1)

SpecPivot == InitPivot /\ [][NextPivot]_vars

RunConstantColumn(rules, length) ==
    /\ pc < length
    /\ \E r \in rules : Step(r, ConstantColumn_run(registry, r))

(* A pipeline of up to MaxRules rules of any kind, run front to back. *)
Init == InitWith(PipeFrames)

Next ==
    \/ RunConstantColumn(PipeConstantColumns, MaxRules)
    \/ RunCalculatedColumn(PipeCalculatedColumns, MaxRules)
    \/ RunConditionalFill(PipeConditionalFills, MaxRules)
    \/ RunFilterBy(PipeFilterBys, MaxRules)
    \/ RunPivotTable(PipePivotTables, MaxRules)

Spec == Init /\ [][Next]_vars

(* ------------------------------------------------------------------ *)
(* What the claims read of a state                                      *)
(* ------------------------------------------------------------------ *)
Ran(kind) == rule.kind = kind

Succeeded == err = NoError

Source == prev[rule.input]

Output == registry[rule.name]

Cell(df, c, i) == df.data[c].vals[i]

(* A number or "no number", as arithmetic sees a scalar. *)
Number(v) == IF v.t = "str" THEN [nan |-> FALSE, n |-> IntOfText(v.s)]
             ELSE [nan |-> v.t \in {"nan", "none"}, n |-> v.n]

Combine(op, u, v) ==
    IF u.nan \/ v.nan THEN [nan |-> TRUE, n |-> 0]
    ELSE [nan |-> FALSE,
          n |-> IF op = "sum" THEN u.n + v.n ELSE IF op = "subtract" THEN u.n - v.n ELSE u.n * v.n]

(* Row i of the base column after the first k steps, each step taking what the one *)
(* before it left.                                                                  *)
RECURSIVE LeftToRight(_, _)
LeftToRight(k, i) ==
    IF k = 0
    THEN (IF HasColumn(Source, rule.base_column) THEN Number(Cell(Source, rule.base_column, i))
          ELSE [nan |-> TRUE, n |-> 0])
    ELSE LET before == LeftToRight(k - 1, i)
             column == rule.expression[k][2]
         IN Combine(rule.expression[k][1], before,
                    IF column = rule.base_column THEN before ELSE Number(Cell(Source, column, i)))

OnlyArithmetic == \A k \in DOMAIN rule.expression :
                      rule.expression[k][1] \in {"sum", "subtract", "multiply"}

(* C2: CalculatedColumn.run evaluates its expression strictly left to right: after a   *)
(* run of arithmetic steps every row of the base column holds the value got by         *)
(* applying step i to what step i-1 left, so [2,4,6] with sum [1,1,1] and multiply     *)
(* [10,10,10] ends as [30,50,70].                                                      *)
C2_LeftToRight ==
    (Ran("CalculatedColumn") /\ Succeeded /\ OnlyArithmetic) =>
        \A i \in 1..Output.nrows :
            LET got == Number(Cell(Output, rule.base_column, i))
                want == LeftToRight(Len(rule.expression), i)
            IN got.nan = want.nan /\ (~want.nan => got.n = want.n)

C2_Witness ==
    /\ Ran("CalculatedColumn") /\ Succeeded
    /\ rule.base_column = "a"
    /\ rule.expression = << <<"sum", "x">>, <<"multiply", "y">> >>
    /\ Source.data["a"].vals = <<IntV(2), IntV(4), IntV(6)>>
    /\ Source.data["x"].vals = <<IntV(1), IntV(1), IntV(1)>>
    /\ Source.data["y"].vals = <<IntV(10), IntV(10), IntV(10)>>
    /\ Output.data["a"].vals = <<IntV(30), IntV(50), IntV(70)>>

(* C5: CalculatedColumn.run with an empty operation sequence fails and writes no table; *)
(* an operation tag outside the supported set fails.                                    *)
C5_EmptyExpressionFails ==
    Ran("CalculatedColumn") =>
        /\ Len(rule.expression) = 0 => (~Succeeded /\ registry = prev)
        /\ (\E k \in DOMAIN rule.expression : rule.expression[k][1] = "power") => ~Succeeded

(* The row was filled: it holds the fill value, which no source row holds. *)
Filled(i) == Cell(Output, rule.fill_column, i) = rule.fill_value
             /\ Cell(Source, rule.fill_column, i) /= rule.fill_value

(* What a comparison value of == or != stands for on row i: the cell of the column it *)
(* names, or itself.  A text method takes every value as a literal.                   *)
Meant(value, i) == IF value.t = "str" /\ HasColumn(Source, value.s)
                   THEN Cell(Source, value.s, i) ELSE value

SameScalar(u, v) == IF u.t = "str" /\ v.t = "str" THEN u.s = v.s
                    ELSE IsNum(u) /\ IsNum(v) /\ u.n = v.n

(* The elementary predicate of the action, without its negation, on row i. *)
Positive(action, i, value) ==
    LET cell == Cell(Source, rule.where_column, i)
        v == Meant(value, i)
    IN CASE action \in {"==", "!="} -> SameScalar(cell, v)
         [] action \in {"contains", "not contains"} -> Contains(cell.s, value.s)
         [] action \in {"startswith", "not startswith"} -> StartsWith(cell.s, value.s)
         [] OTHER -> EndsWith(cell.s, value.s)

Negated(action) == action \in {"!=", "not contains", "not startswith", "not endswith"}

(* C1: with two or more comparison values, a negated operator fills exactly the rows  *)
(* where every value fails the positive test (NOT(row==A) AND NOT(row==B)), and a       *)
(* non-negated operator exactly the rows where some value passes it                     *)
(* ((row==A) OR (row==B)).                                                              *)
C1_JoinByNegation ==
    (Ran("ConditionalFill") /\ Succeeded /\ Len(rule.where_condition_values) >= 2) =>
        \A i \in 1..Output.nrows :
            Filled(i) <=>
                IF Negated(rule.where_condition)
                THEN \A k \in DOMAIN rule.where_condition_values :
                         ~Positive(rule.where_condition, i, rule.where_condition_values[k])
                ELSE \E k \in DOMAIN rule.where_condition_values :
                         Positive(rule.where_condition, i, rule.where_condition_values[k])

(* A negated operator with two different values, of which a row equals one: the OR *)
(* form would have filled that row.                                                *)
C1_Witness ==
    /\ Ran("ConditionalFill") /\ Succeeded
    /\ rule.where_condition = "!="
    /\ rule.where_condition_values = <<IntV(1), IntV(2)>>
    /\ \E i \in 1..Output.nrows : Cell(Source, "k", i) = IntV(1) /\ ~Filled(i)
    /\ \E i \in 1..Output.nrows : Cell(Source, "k", i) = IntV(3) /\ Filled(i)
    /\ rule.where_column = "k"

(* The columns the rule's configuration needs to find in the frame it reads. *)
NamedColumns ==
    CASE Ran("FilterBy") -> {rule.column_name}
      [] Ran("ConditionalFill") -> {rule.where_column, rule.fill_column}
      [] Ran("PivotTable") -> Range(rule.group_columns) \cup Range(rule.group_values)
      [] Ran("CalculatedColumn") ->
            {rule.expression[k][2] : k \in {j \in DOMAIN rule.expression :
                                               rule.expression[j][1] \in SUPPORTED_OPERATIONS}}
      [] OTHER -> {}

UnknownColumnError == err.type \in {"Exception", "KeyError", "UndefinedVariableError"}
                      /\ err.arg \in NamedColumns /\ ~HasColumn(Source, err.arg)

(* C3: when the rule's configuration names a column that is not in the input table,  *)
(* run fails with an unknown-column error and the entry under the rule's target name  *)
(* holds the table it held before the run.                                            *)
C3_UnknownColumnFails ==
    (rule.kind /= "none" /\ Source.present /\ \E c \in NamedColumns : ~HasColumn(Source, c)) =>
        (UnknownColumnError /\ registry[rule.name] = prev[rule.name])

SupportedOperators == {"==", "!=", ">", ">=", "<", "<=", "contains", "does not contain",
                       "starts with", "does not start with", "ends with", "does not end with"}

Pairs == Zip(rule.filter_conditions, rule.condition_values)

(* C6: an operator outside the supported set makes FilterBy and ConditionalFill fail; *)
(* the rule never skips the condition and writes no output table.                     *)
C6_UnsupportedOperatorFails ==
    /\ (Ran("FilterBy") /\ \E k \in DOMAIN Pairs : Pairs[k][1] \notin SupportedOperators) =>
           (~Succeeded /\ registry = prev)
    /\ (Ran("ConditionalFill")
        /\ rule.where_condition \notin SupportedOperators \cup DOMAIN string_methods) =>
           (~Succeeded /\ registry = prev)

(* row[column] op value, on two numbers; a NaN is equal to nothing and ordered with nothing. *)
Direct(op, cell, value) ==
    LET a == Number(cell)
        b == Number(value)
    IN IF a.nan \/ b.nan THEN op = "!="
       ELSE CASE op = "==" -> a.n = b.n
              [] op = "!=" -> a.n /= b.n
              [] op = ">" -> a.n > b.n
              [] op = ">=" -> a.n >= b.n
              [] op = "<" -> a.n < b.n
              [] OTHER -> a.n <= b.n

Comparisons == {"==", "!=", ">", ">=", "<", "<="}

(* The rows of the source the predicate P holds of, in their order. *)
RowsWhere(P(_)) == SelectSeq([i \in 1..Source.nrows |-> i], P)

OutputIsRows(rows) ==
    /\ Succeeded
    /\ Output.nrows = Len(rows)
    /\ \A c \in ColumnSet(Source) :
           Output.data[c].vals = [j \in DOMAIN rows |-> Cell(Source, c, rows[j])]

NumericColumn(c) == HasColumn(Source, c) /\ Source.data[c].dtype \in {"int64", "float64"}

(* C7: with one of ==, !=, >, >=, <, <= and a single value, FilterBy.run selects, and *)
(* ConditionalFill.run fills, exactly the rows of which the comparison is true.       *)
C7_SingleComparison ==
    /\ (/\ Ran("FilterBy")
        /\ Len(rule.filter_conditions) = 1 /\ Len(rule.condition_values) = 1
        /\ rule.filter_conditions[1] \in Comparisons
        /\ rule.condition_values[1].t = "int"
        /\ NumericColumn(rule.column_name)) =>
           OutputIsRows(RowsWhere(LAMBDA i : Direct(rule.filter_conditions[1],
                                                    Cell(Source, rule.column_name, i),
                                                    rule.condition_values[1])))
    /\ (/\ Ran("ConditionalFill")
        /\ Len(rule.where_condition_values) = 1
        /\ rule.where_condition \in Comparisons
        /\ rule.where_condition_values[1].t = "int"
        /\ NumericColumn(rule.where_column) /\ HasColumn(Source, rule.fill_column)) =>
           (Succeeded /\ \A i \in 1..Source.nrows :
                Filled(i) <=> Direct(rule.where_condition, Cell(Source, rule.where_column, i),
                                     rule.where_condition_values[1]))

(* C8: FilterBy.run keeps exactly the rows that satisfy every configured               *)
(* (operator, value) pair, in their order.                                             *)
C8_AllPairsApplied ==
    (/\ Ran("FilterBy")
     /\ NumericColumn(rule.column_name)
     /\ \A k \in DOMAIN Pairs : Pairs[k][1] \in Comparisons /\ Pairs[k][2].t = "int") =>
        OutputIsRows(RowsWhere(LAMBDA i : \A k \in DOMAIN Pairs :
                                   Direct(Pairs[k][1], Cell(Source, rule.column_name, i),
                                          Pairs[k][2])))

RequestedColumns == rule.group_columns \o rule.group_values

RECURSIVE Tokens(_)
Tokens(s) ==
    IF s = "" THEN <<>>
    ELSE IF ~Contains(s, ", ") THEN <<s>>
    ELSE LET at == CHOOSE i \in 1..Len(s) :
                       /\ SubSeq(s, i, i + 1) = ", "
                       /\ \A j \in 1..(i - 1) : SubSeq(s, j, j + 1) /= ", "
         IN <<SubSeq(s, 1, at - 1)>> \o Tokens(SubSeq(s, at + 2, Len(s)))

(* The source rows of the group the output row n stands for. *)
GroupRows(n) ==
    {i \in 1..Source.nrows :
        \A j \in DOMAIN rule.group_columns :
            Cell(Source, rule.group_columns[j], i) = Cell(Output, rule.group_columns[j], n)}

NonEmpty(v) == ~IsNull(v) /\ ~(v.t = "str" /\ v.s = "")

(* C10: the unique aggregator gives each group the ", "-joined distinct texts of its *)
(* non-null, non-empty values (0 and False among them), each once, and no token for  *)
(* a null.                                                                           *)
C10_UniqueJoinsDistinctValues ==
    (Ran("PivotTable") /\ Succeeded) =>
        \A k \in DOMAIN rule.group_values :
            rule.group_functions[k] = "unique" =>
                \A n \in 1..Output.nrows :
                    LET tokens == Tokens(Cell(Output, rule.group_values[k], n).s)
                    IN /\ Cardinality(Range(tokens)) = Len(tokens)
                       /\ Range(tokens) =
                              {PyStr(Cell(Source, rule.group_values[k], i)) :
                                  i \in {j \in GroupRows(n) :
                                            NonEmpty(Cell(Source, rule.group_values[k], j))}}

(* The key combinations of the source, each where it first occurs, in row order. *)
RECURSIVE FirstOccurrences(_, _)
FirstOccurrences(i, seen) ==
    IF i > Source.nrows THEN <<>>
    ELSE LET key == KeyOf(Source, rule.group_columns, i)
         IN IF key \in seen THEN FirstOccurrences(i + 1, seen)
            ELSE <<key>> \o FirstOccurrences(i + 1, seen \cup {key})

OutputKeys == [n \in 1..Output.nrows |-> KeyOf(Output, rule.group_columns, n)]

(* C11: with preserve_order requested the output has one row per distinct combination *)
(* of grouping-key values, in the order in which each combination first occurs in the *)
(* source table.                                                                      *)
C11_PreserveOrder ==
    (Ran("PivotTable") /\ Succeeded /\ rule.preserve_order) =>
        OutputKeys = FirstOccurrences(1, {})

(* The run is of one modulo step on a base column of numbers. *)
ModuloStep ==
    /\ Ran("CalculatedColumn") /\ Len(rule.expression) = 1 /\ rule.expression[1][1] = "mod"
    /\ HasColumn(Source, rule.base_column)
    /\ Source.data[rule.base_column].dtype = "int64"

(* C12: a modulo step that names a destination column writes base mod `mod` into that *)
(* column and leaves the base column as it was; with no destination it overwrites the *)
(* base column.                                                                        *)
C12_ModuloDestination ==
    ModuloStep =>
        LET dest == rule.expression[1][2]
            base == rule.base_column
        IN /\ Succeeded
           /\ \A i \in 1..Source.nrows :
                 /\ Cell(Output, IF dest /= "" THEN dest ELSE base, i).n
                        = Cell(Source, base, i).n % rule.mod
                 /\ dest /= "" => Cell(Output, base, i) = Cell(Source, base, i)

(* The run is of one cumulative-sum step with skipna on. *)
CumSumStep ==
    /\ Ran("CalculatedColumn") /\ Succeeded /\ rule.skipna
    /\ Len(rule.expression) = 1 /\ rule.expression[1][1] = "cumsum"

(* The column a cumulative-sum step writes to. *)
CumSumTarget == IF rule.expression[1][2] /= "" THEN rule.expression[1][2] ELSE rule.base_column

(* Row i of the base column as the step reads it. *)
BaseNumber(i) == LeftToRight(0, i)

(* The sum of the non-null values of the base column in rows 1..i. *)
RECURSIVE RunningSum(_)
RunningSum(i) ==
    IF i = 0 THEN 0
    ELSE RunningSum(i - 1) + (IF BaseNumber(i).nan THEN 0 ELSE BaseNumber(i).n)

(* C13 as stated: with skip-null on, every output position holds the running sum of the *)
(* non-null values up to and including that row, so [1, null, 3] yields [1, 1, 4].      *)
C13_EveryPositionRunningSum ==
    CumSumStep =>
        \A i \in 1..Output.nrows :
            LET got == Number(Cell(Output, CumSumTarget, i))
            IN ~got.nan /\ got.n = RunningSum(i)

(* C13, amended: with skip-null on, a null is a non-contributing step and does not reach *)
(* later rows: every non-null position holds the running sum of the non-null values up  *)
(* to and including that row, and a null position stays null, so [1, null, 3] yields     *)
(* [1, null, 4].                                                                         *)
C13_NullStaysSumContinues ==
    CumSumStep =>
        \A i \in 1..Output.nrows :
            LET got == Number(Cell(Output, CumSumTarget, i))
            IN /\ got.nan = BaseNumber(i).nan
               /\ ~got.nan => got.n = RunningSum(i)

C13_Witness ==
    /\ CumSumStep
    /\ rule.base_column = "y" /\ rule.expression[1][2] = ""
    /\ [i \in 1..Source.nrows |-> Number(Cell(Source, "y", i))]
         = << [nan |-> FALSE, n |-> 10], [nan |-> TRUE, n |-> 0], [nan |-> FALSE, n |-> 10] >>
    /\ [i \in 1..Output.nrows |-> Number(Cell(Output, "y", i))]
         = << [nan |-> FALSE, n |-> 10], [nan |-> TRUE, n |-> 0], [nan |-> FALSE, n |-> 20] >>

(* The six operations: the four of SUPPORTED_OPERATIONS and the two the docstring of *)
(* __init__ adds.                                                                   *)
SixOperations == SUPPORTED_OPERATIONS \cup {"cumsum", "mod"}

(* C14: run applies each of the six supported operations wherever it appears in the *)
(* expression; none of them makes run fail as an unknown operation.                 *)
C14_SupportedOperationsRun ==
    Ran("CalculatedColumn") => ~(err.type = "KeyError" /\ err.arg \in SixOperations)

(* A literal that the target column's element type takes: any value for a column of *)
(* text, a number or the text of a number for a column of numbers.                  *)
CoercibleLiteral(value) ==
    \/ Source.data[rule.where_column].dtype = "object"
    \/ value.t = "int"
    \/ value.t = "str" /\ IsIntText(value.s)

(* A run of == or != whose values are names of columns of the source and coercible *)
(* literals, at least one of them a column name.                                   *)
ColumnValues ==
    /\ Ran("ConditionalFill") /\ rule.where_condition \in {"==", "!="}
    /\ HasColumn(Source, rule.where_column) /\ HasColumn(Source, rule.fill_column)
    /\ \E k \in DOMAIN rule.where_condition_values :
           NamesColumn(Source, rule.where_condition_values[k])
    /\ \A k \in DOMAIN rule.where_condition_values :
           \/ NamesColumn(Source, rule.where_condition_values[k])
           \/ CoercibleLiteral(rule.where_condition_values[k])

(* C15: every comparison value is resolved on its own: a value that names a column of *)
(* the table is compared column to column, whatever the element type of the target     *)
(* column (integer, float or text), any other value is a literal of the target's type, *)
(* and a list that mixes the two compiles without error.                               *)
C15_ColumnValuesCompile ==
    ColumnValues =>
        /\ Succeeded
        /\ \A i \in 1..Output.nrows :
              Filled(i) <=>
                  IF Negated(rule.where_condition)
                  THEN \A k \in DOMAIN rule.where_condition_values :
                           ~SameScalar(Cell(Source, rule.where_column, i),
                                       Meant(rule.where_condition_values[k], i))
                  ELSE \E k \in DOMAIN rule.where_condition_values :
                           SameScalar(Cell(Source, rule.where_column, i),
                                      Meant(rule.where_condition_values[k], i))

====
